---- MODULE Spec2Model ----
(***************************************************************************)
(* rest-blazar: a command-line HTTP client.  One run of main() is modelled *)
(* from flag.Parse to process exit, for the two revisions of main() the    *)
(* repository holds that carry the request pipeline:                        *)
(*   rev = "main"   src/main.go              (single attempt)               *)
(*   rev = "retry"  src/unnamed/part_001:112-381 (json/form bodies, retry)  *)
(* The run is single-threaded; pc is the position of main().  Flag values   *)
(* are fixed by flag.Parse; the model draws each one at the statement that  *)
(* first reads it.  The network (client.Do, io.ReadAll on the response) and *)
(* the file system (os.ReadFile, os.WriteFile) are the environment: their   *)
(* outcomes are drawn nondeterministically.                                 *)
(***************************************************************************)
EXTENDS Integers, Sequences, FiniteSets, TLC

VARIABLES
    rev,          \* which revision of main() runs
    pc,           \* position of main()
    exitCode,     \* -1 while running; 0 return from main, 1 os.Exit(1), 2 panic
    reported,     \* the error message printed before os.Exit(1), "" if none
    noRedirect,   \* *noRedirect
    headersOpt,   \* *headers, split at "," and each pair split by SplitN(pair, ":", 2)
    bodySrc,      \* which branch of the body resolution ran
    earlyCT,      \* Content-Type written through req before http.NewRequest (retry, 198-215)
    reqHeader,    \* req.Header
    reqBody,      \* the bytes behind the strings.Reader handed to http.NewRequest
    reqPos,       \* read position of that strings.Reader
    retries,      \* *retries
    attempt,      \* loop variable of the retry loop
    log,          \* one record per client.Do call, in order
    resps,        \* one record per response obtained: body stream, reads, closes
    defers,       \* deferred resp.Body.Close() calls, in defer order
    resp,         \* resp: index into resps, 0 is nil
    respVal,      \* the response resp points to, NoResp when resp is nil
    finalResp,    \* finalResp: index into resps, 0 is nil
    finalErr,     \* finalErr: "" is nil
    respData,     \* respData
    data,         \* data
    elapsed,      \* time.Since(startTime) if read now
    sinceSend,    \* time since the current attempt's client.Do was entered
    winTime,      \* sinceSend when the winning attempt's body read ended, -1 before
    duration,     \* duration, -1 while unset
    saved,        \* "off" no save path, "none" not yet, "ok" written, "failed" write error
    fileData,     \* contents of the save file after os.WriteFile
    warned,       \* "Error saving response to file" was printed
    rendered      \* what the output switch printed, NoRender before

vars == <<rev, pc, exitCode, reported, noRedirect, headersOpt, bodySrc, earlyCT,
          reqHeader, reqBody, reqPos, retries, attempt, log, resps,
          defers, resp, respVal, finalResp, finalErr, respData, data, elapsed, sinceSend,
          winTime, duration, saved, fileData, warned, rendered>>

(***************************************************************************)
(* Bounds of the model.                                                    *)
(***************************************************************************)
MaxRetries == 1
MaxTick == 1

(***************************************************************************)
(* net/http: a Client whose CheckRedirect is nil makes at most 10 requests  *)
(* for one call (defaultCheckRedirect) and fails the call on the redirect   *)
(* that would make the eleventh.                                            *)
(***************************************************************************)
DefaultMaxRedirects == 10

Revisions == {"main", "retry"}

\* Values of the headers option, already split at ",": each pair is the
\* result of strings.SplitN(pair, ":", 2), one part when the pair has no ":".
HeaderOptions ==
    { <<>>,
      << <<"content-type", " text/plain">> >>,
      << <<"bad">>, <<"X-A", "1">>, <<"X-A", "2">> >> }

\* Values of the json and form options, split at "," and by SplitN(pair, "=", 2).
PairOptions == { <<>>, << <<"a", "1">> >>, << <<"b">> >> }

RawBodies == { "", "raw" }
HeaderNames == {"Content-Type", "X-A", "Authorization"}
ChainLens == {0, 1, DefaultMaxRedirects - 1, DefaultMaxRedirects}
RespBodies == { <<>>, <<"x", "y">> }
FinalStatuses == {200, 500}
\* Values of the output option; any other string takes the default branch.
OutputOptions == {"pretty", "json", "headers-only", "body-only", "xml"}

NoResp == [status |-> 0, location |-> "", hop |-> 0, issued |-> 0, chain |-> 0,
           body |-> <<>>, pos |-> 0, eof |-> FALSE]

NoRender == [fmt |-> "none", shows |-> {}, status |-> 0, color |-> "",
             location |-> "", body |-> <<>>, duration |-> -1]

(***************************************************************************)
(* Library functions the program calls, as far as the run depends on them. *)
(***************************************************************************)

\* strings.TrimSpace on the strings the options hold.
TrimSpace(s) == IF s = " text/plain" THEN "text/plain" ELSE s

\* textproto.CanonicalMIMEHeaderKey, which Header.Set and Header.Get apply.
CanonicalKey(k) == IF k = "content-type" THEN "Content-Type" ELSE k

\* A header map with no entries; "" is what Header.Get returns for an absent key.
EmptyHeader == [n \in HeaderNames |-> ""]

HeaderGet(h, k) == h[CanonicalKey(k)]

HeaderSet(h, k, v) == [h EXCEPT ![CanonicalKey(k)] = v]

\* []byte(s) for the raw body strings, one element per byte.
Bytes(s) == IF s = "raw" THEN <<"r", "a", "w">> ELSE <<>>

\* The pairs of a key=value option that survive `if len(parts) == 2`.
KeptPairs(opt) == SelectSeq(opt, LAMBDA parts : Len(parts) = 2)

RECURSIVE JoinPairs(_, _, _)
JoinPairs(pairs, mid, sep) ==
    IF pairs = <<>> THEN <<>>
    ELSE <<pairs[1][1], mid, pairs[1][2]>>
         \o (IF Len(pairs) > 1 THEN <<sep>> ELSE <<>>)
         \o JoinPairs(Tail(pairs), mid, sep)

\* json.Marshal(jsonMap) of the map built from the kept pairs.  The options
\* drawn keep at most one pair, so the map's key order and the overwriting of
\* a repeated key do not arise.
JsonMarshal(opt) == <<"{">> \o JoinPairs(KeptPairs(opt), ":", ",") \o <<"}">>

\* url.Values.Encode() of the values added from the kept pairs.
FormEncode(opt) == JoinPairs(KeptPairs(opt), "=", "&")

\* The header loop: req.Header.Set for every pair with two parts, in order.
RECURSIVE SetHeaders(_, _)
SetHeaders(h, pairs) ==
    IF pairs = <<>> THEN h
    ELSE SetHeaders(
             IF Len(pairs[1]) = 2
             THEN HeaderSet(h, TrimSpace(pairs[1][1]), TrimSpace(pairs[1][2]))
             ELSE h,
             Tail(pairs))

\* The headers the request carries after the header block: the pairs of a
\* non-empty option, else the default Content-Type.
ApplyHeaders(h, opt) ==
    IF opt # <<>> THEN SetHeaders(h, opt)
    ELSE HeaderSet(h, "Content-Type", "application/json")

\* os.Exit(1) after printing msg: deferred calls do not run.
Exit1(msg) ==
    /\ pc' = "exited"
    /\ exitCode' = 1
    /\ reported' = msg

Init ==
    /\ rev \in Revisions
    /\ pc = "start"
    /\ exitCode = -1
    /\ reported = ""
    /\ noRedirect = FALSE
    /\ headersOpt = <<>>
    /\ bodySrc = "none"
    /\ earlyCT = ""
    /\ reqHeader = EmptyHeader
    /\ reqBody = <<>>
    /\ reqPos = 0
    /\ retries = 0
    /\ attempt = 0
    /\ log = <<>>
    /\ resps = <<>>
    /\ defers = <<>>
    /\ resp = 0
    /\ respVal = NoResp
    /\ finalResp = 0
    /\ finalErr = ""
    /\ respData = <<>>
    /\ data = <<>>
    /\ elapsed = 0
    /\ sinceSend = 0
    /\ winTime = -1
    /\ duration = -1
    /\ saved = "none"
    /\ fileData = <<>>
    /\ warned = FALSE
    /\ rendered = NoRender

\* The URL check.
CheckURL ==
    /\ pc = "start"
    /\ \E url \in {"", "http://h/"} :
         IF url = "" THEN Exit1("Error: URL is required.")
         ELSE /\ pc' = "client"
              /\ UNCHANGED <<exitCode, reported>>
    /\ UNCHANGED <<rev, noRedirect, headersOpt, bodySrc, earlyCT, reqHeader,
                   reqBody, reqPos, retries, attempt, log, resps,
                   defers, resp, respVal, finalResp, finalErr, respData, data, elapsed,
                   sinceSend, winTime, duration, saved, fileData, warned,
                   rendered>>

\* The client and its redirect policy: CheckRedirect is the function that
\* returns http.ErrUseLastResponse when no-redirect is set, nil otherwise.
ConfigureClient ==
    /\ pc = "client"
    /\ noRedirect' \in BOOLEAN
    /\ pc' = "body"
    /\ UNCHANGED <<rev, exitCode, reported, headersOpt, bodySrc, earlyCT,
                   reqHeader, reqBody, reqPos, retries, attempt, log,
                   resps, defers, resp, respVal, finalResp, finalErr, respData, data,
                   elapsed, sinceSend, winTime, duration, saved, fileData,
                   warned, rendered>>

\* The branch of the body resolution that runs: body-file first, then (retry
\* revision) json, then form, then the raw body.
ChosenSource(bodyFile, jsonData, formData) ==
    IF bodyFile # "" THEN "file"
    ELSE IF rev = "retry" /\ jsonData # <<>> THEN "json"
    ELSE IF rev = "retry" /\ formData # <<>> THEN "form"
    ELSE "raw"

\* The Content-Type the json and form branches write through req before
\* http.NewRequest has made the request.
EarlyContentType(src) ==
    IF src = "json" THEN "application/json"
    ELSE IF src = "form" THEN "application/x-www-form-urlencoded"
    ELSE ""

\* Determine the request body.
ResolveBody ==
    /\ pc = "body"
    /\ \E bodyFile \in {"", "readable", "unreadable"}, body \in RawBodies,
          jsonData \in PairOptions, formData \in PairOptions :
         LET src == ChosenSource(bodyFile, jsonData, formData) IN
         /\ rev = "main" => jsonData = <<>> /\ formData = <<>>
         /\ IF bodyFile = "unreadable"
            THEN /\ Exit1("Error reading body file")
                 /\ UNCHANGED <<bodySrc, earlyCT, reqBody>>
            ELSE /\ pc' = "build"
                 /\ bodySrc' = src
                 /\ earlyCT' = EarlyContentType(src)
                 /\ reqBody' = CASE src = "file" -> <<"f">>
                                 [] src = "json" -> JsonMarshal(jsonData)
                                 [] src = "form" -> FormEncode(formData)
                                 [] OTHER -> Bytes(body)
                 /\ UNCHANGED <<exitCode, reported>>
    /\ UNCHANGED <<rev, noRedirect, headersOpt, reqHeader, reqPos,
                   retries, attempt, log, resps, defers, resp, respVal, finalResp,
                   finalErr, respData, data, elapsed, sinceSend, winTime,
                   duration, saved, fileData, warned, rendered>>

\* The header map http.NewRequest's request starts with.  In the retry
\* revision the json and form branches use req before the line that declares
\* it; a build that accepts this either keeps that write in the request's
\* headers or starts the request with a fresh, empty header map.
InitialHeaders(kept) ==
    IF kept /\ earlyCT # ""
    THEN HeaderSet(EmptyHeader, "Content-Type", earlyCT)
    ELSE EmptyHeader

\* req.SetBasicAuth when a username is given.
BasicAuth(h, username) ==
    IF username # "" THEN HeaderSet(h, "Authorization", "Basic") ELSE h

\* Build the request, attach basic auth and apply the headers option.  The
\* verbose request trace that follows only prints and changes no state.
BuildRequest ==
    /\ pc = "build"
    /\ \E valid \in BOOLEAN, kept \in BOOLEAN, opt \in HeaderOptions,
          username \in {"", "u"}, n \in -1..MaxRetries :
         /\ rev = "main" => n = 0
         /\ IF ~valid
            THEN /\ Exit1("Error creating request")
                 /\ UNCHANGED <<headersOpt, reqHeader, reqPos, retries>>
            ELSE /\ headersOpt' = opt
                 /\ reqHeader' = ApplyHeaders(
                                     BasicAuth(InitialHeaders(kept), username), opt)
                 /\ reqPos' = 0
                 /\ retries' = n
                 /\ pc' = IF rev = "main" THEN "send" ELSE "loop"
                 /\ UNCHANGED <<exitCode, reported>>
    /\ UNCHANGED <<rev, noRedirect, bodySrc, earlyCT, reqBody,
                   attempt, log, resps, defers, resp, respVal, finalResp, finalErr,
                   respData, data, elapsed, sinceSend, winTime, duration,
                   saved, fileData, warned, rendered>>

(***************************************************************************)
(* The network.                                                            *)
(***************************************************************************)

\* The bytes the request body reader still holds.
Avail == SubSeq(reqBody, reqPos + 1, Len(reqBody))

\* Why client.Do returns an error, "none" when it returns a response.  chain is the number of redirect
\* (302 with Location) responses the server gives before its final response;
\* conn is whether the connection and the wait for the response headers
\* succeed.  The request is written from the reader as it stands: Do does not
\* rewind it, and a request whose reader holds fewer bytes than the
\* ContentLength http.NewRequest recorded fails while it is written.  With
\* CheckRedirect nil the call fails on the redirect that would make the
\* eleventh request.
DoFailure(chain, conn) ==
    IF ~conn THEN "conn"
    ELSE IF reqPos # 0 THEN "short"
    ELSE IF ~noRedirect /\ chain >= DefaultMaxRedirects THEN "redirects"
    ELSE "none"

DoSucceeds(chain, conn) == DoFailure(chain, conn) = "none"

\* The record the model keeps of one client.Do call: the request body bytes
\* the reader held when it was made, how the attempt ended ("got" until its
\* body is read), and why the call failed.
Attempt(chain, conn) ==
    [ avail |-> Avail,
      res   |-> IF DoSucceeds(chain, conn) THEN "got" ELSE "doErr",
      cause |-> DoFailure(chain, conn),
      chain |-> IF DoFailure(chain, conn) = "redirects" THEN chain ELSE 0 ]

\* No redirect policy installed: the chain is always followed.
ReturnedHopFollow(chain) == chain

\* The hop of the chain whose response client.Do returns: the first response
\* under http.ErrUseLastResponse, else the response after the last redirect.
ReturnedHop(chain) == IF noRedirect THEN 0 ELSE chain

\* The response client.Do returns, its body stream unread.
DoResponse(chain, final, body) ==
    LET hop == ReturnedHop(chain) IN
    [ status   |-> IF hop < chain THEN 302 ELSE final,
      location |-> IF hop < chain THEN "/next" ELSE "",
      hop      |-> hop,
      issued   |-> hop + 1,
      chain    |-> chain,
      body     |-> body,
      pos      |-> 0,
      eof      |-> FALSE ]

\* What the request body reader holds after a failed client.Do: all of it is
\* consumed when the request was written, none when the connection failed
\* before (sent says which when the connection is what failed).
PosAfterFailedDo(conn, sent) == IF conn \/ sent THEN Len(reqBody) ELSE reqPos

\* io.ReadAll(resp.Body) on stream r: the rest of the stream when the read
\* reaches EOF.  A stream that has reported EOF reports it again, so a second
\* ReadAll returns no bytes and no error.
ReadAllOk(r, ok) == ok \/ r.eof

ReadAllData(r) == SubSeq(r.body, r.pos + 1, Len(r.body))

AfterReadAll(r, ok) ==
    [r EXCEPT !.pos = IF ReadAllOk(r, ok) THEN Len(r.body) ELSE @,
              !.eof = ReadAllOk(r, ok)]

\* The bookkeeping of a response's body stream: ReadAll and Close calls.
NewStream == [reads |-> 0, closes |-> 0]

\* resp.Body.Close() for every deferred call, last deferred first.
RECURSIVE RunDefers(_, _)
RunDefers(rs, ds) ==
    IF ds = <<>> THEN rs
    ELSE LET i == ds[Len(ds)] IN
         RunDefers([rs EXCEPT ![i].closes = @ + 1], SubSeq(ds, 1, Len(ds) - 1))

(***************************************************************************)
(* src/main.go: one attempt.                                               *)
(***************************************************************************)

\* startTime, client.Do, the deferred Close and the duration.
MainSend ==
    /\ pc = "send"
    /\ \E chain \in ChainLens, conn \in BOOLEAN, final \in FinalStatuses,
          body \in RespBodies, d \in 0..MaxTick, sent \in BOOLEAN :
         /\ elapsed' = d
         /\ sinceSend' = d
         /\ IF DoSucceeds(chain, conn)
            THEN /\ log' = Append(log, Attempt(chain, conn))
                 /\ reqPos' = Len(reqBody)
                 /\ resps' = Append(resps, NewStream)
                 /\ resp' = Len(resps) + 1
                 /\ respVal' = DoResponse(chain, final, body)
                 /\ defers' = Append(defers, Len(resps) + 1)
                 /\ duration' = d
                 /\ pc' = "read"
                 /\ UNCHANGED <<exitCode, reported>>
            ELSE /\ log' = Append(log, Attempt(chain, conn))
                 /\ reqPos' = PosAfterFailedDo(conn, sent)
                 /\ Exit1("Error performing request")
                 /\ UNCHANGED <<resps, resp, respVal, defers, duration>>
    /\ UNCHANGED <<rev, noRedirect, headersOpt, bodySrc, earlyCT, reqHeader,
                   reqBody, retries, attempt, finalResp, finalErr,
                   respData, data, winTime, saved, fileData, warned, rendered>>

\* io.ReadAll of the response body, then on to the save step.
MainRead ==
    /\ pc = "read"
    /\ \E ok \in BOOLEAN, d \in 0..MaxTick :
         /\ resps' = [resps EXCEPT ![resp].reads = @ + 1]
         /\ respVal' = AfterReadAll(respVal, ok)
         /\ elapsed' = elapsed + d
         /\ sinceSend' = sinceSend + d
         /\ IF ReadAllOk(respVal, ok)
            THEN /\ data' = ReadAllData(respVal)
                 /\ log' = [log EXCEPT ![Len(log)].res = "ok"]
                 /\ winTime' = sinceSend + d
                 /\ pc' = "save"
                 /\ UNCHANGED <<exitCode, reported>>
            ELSE /\ log' = [log EXCEPT ![Len(log)].res = "readErr"]
                 /\ Exit1("Error reading response body")
                 /\ UNCHANGED <<data, winTime>>
    /\ UNCHANGED <<rev, noRedirect, headersOpt, bodySrc, earlyCT, reqHeader,
                   reqBody, reqPos, retries, attempt, defers, resp,
                   finalResp, finalErr, respData, duration, saved, fileData,
                   warned, rendered>>

(***************************************************************************)
(* src/unnamed/part_001, second program: the retry loop.                   *)
(***************************************************************************)

\* The loop condition with < for <=: one attempt too few.
LoopContinuesStrict == attempt < retries

\* The loop condition.
LoopContinues == attempt <= retries

\* The loop head: the condition, the sleep before a retry, startTime.
LoopHead ==
    /\ pc = "loop"
    /\ IF LoopContinues
       THEN /\ elapsed' = 0
            /\ sinceSend' = 0
            /\ pc' = "do"
       ELSE /\ pc' = "after"
            /\ UNCHANGED <<elapsed, sinceSend>>
    /\ UNCHANGED <<rev, exitCode, reported, noRedirect, headersOpt, bodySrc,
                   earlyCT, reqHeader, reqBody, reqPos, retries,
                   attempt, log, resps, defers, resp, respVal, finalResp,
                   finalErr, respData, data, winTime, duration, saved,
                   fileData, warned, rendered>>

\* client.Do inside the loop: a response defers its Close and goes on to the
\* read, an error is kept in finalErr and ends the iteration.
RetryDo ==
    /\ pc = "do"
    /\ \E chain \in ChainLens, conn \in BOOLEAN, final \in FinalStatuses,
          body \in RespBodies, d \in 0..MaxTick, sent \in BOOLEAN :
         /\ elapsed' = elapsed + d
         /\ sinceSend' = sinceSend + d
         /\ IF DoSucceeds(chain, conn)
            THEN /\ log' = Append(log, Attempt(chain, conn))
                 /\ reqPos' = Len(reqBody)
                 /\ resps' = Append(resps, NewStream)
                 /\ resp' = Len(resps) + 1
                 /\ respVal' = DoResponse(chain, final, body)
                 /\ defers' = Append(defers, Len(resps) + 1)
                 /\ pc' = "readall"
                 /\ UNCHANGED <<finalErr, attempt>>
            ELSE /\ log' = Append(log, Attempt(chain, conn))
                 /\ reqPos' = PosAfterFailedDo(conn, sent)
                 /\ finalErr' = "do"
                 /\ attempt' = attempt + 1
                 /\ pc' = "loop"
                 /\ UNCHANGED <<resps, resp, respVal, defers>>
    /\ UNCHANGED <<rev, exitCode, reported, noRedirect, headersOpt, bodySrc,
                   earlyCT, reqHeader, reqBody, retries, finalResp,
                   respData, data, winTime, duration, saved, fileData, warned,
                   rendered>>

\* continue for break: the loop goes on after an attempt whose body was read.
AfterWinContinue == [pc |-> "loop", attempt |-> attempt + 1]

\* Where the loop goes after an attempt whose body was read: break.
AfterWin == [pc |-> "after", attempt |-> attempt]

\* io.ReadAll inside the loop: success records duration, respData, finalResp
\* and breaks; an error is kept in finalErr and ends the iteration, and the
\* iteration's resp goes out of scope.
RetryRead ==
    /\ pc = "readall"
    /\ \E ok \in BOOLEAN, d \in 0..MaxTick :
         /\ resps' = [resps EXCEPT ![resp].reads = @ + 1]
         /\ elapsed' = elapsed + d
         /\ sinceSend' = sinceSend + d
         /\ IF ReadAllOk(respVal, ok)
            THEN /\ duration' = elapsed + d
                 /\ respData' = ReadAllData(respVal)
                 /\ respVal' = AfterReadAll(respVal, ok)
                 /\ finalResp' = resp
                 /\ finalErr' = ""
                 /\ log' = [log EXCEPT ![Len(log)].res = "ok"]
                 /\ winTime' = sinceSend + d
                 /\ pc' = AfterWin.pc
                 /\ attempt' = AfterWin.attempt
                 /\ UNCHANGED resp
            ELSE /\ finalErr' = "read"
                 /\ log' = [log EXCEPT ![Len(log)].res = "readErr"]
                 /\ attempt' = attempt + 1
                 /\ resp' = 0
                 /\ respVal' = NoResp
                 /\ pc' = "loop"
                 /\ UNCHANGED <<duration, respData, finalResp, winTime>>
    /\ UNCHANGED <<rev, exitCode, reported, noRedirect, headersOpt, bodySrc,
                   earlyCT, reqHeader, reqBody, reqPos, retries,
                   defers, data, saved, fileData, warned, rendered>>

\* The test after the loop looking at client.Do errors only.
LoopFailedOnlyDo == finalErr = "do"

\* The test after the loop.
LoopFailed == finalErr # ""

\* After the loop: a kept error ends the run with exit code 1; otherwise
\* resp and data are taken from the loop's results and duration is measured
\* again from startTime.
AfterLoop ==
    /\ pc = "after"
    /\ IF LoopFailed
       THEN /\ Exit1("Error after attempts")
            /\ UNCHANGED <<resp, data, elapsed, sinceSend, duration>>
       ELSE \E d \in 0..MaxTick :
            /\ resp' = finalResp
            /\ data' = respData
            /\ elapsed' = elapsed + d
            /\ sinceSend' = sinceSend + d
            /\ duration' = elapsed + d
            /\ pc' = "reread"
            /\ UNCHANGED <<exitCode, reported>>
    /\ UNCHANGED <<rev, noRedirect, headersOpt, bodySrc, earlyCT, reqHeader,
                   reqBody, reqPos, retries, attempt, log, resps,
                   defers, respVal, finalResp, finalErr, respData, winTime,
                   saved, fileData, warned, rendered>>

\* The read after the loop: io.ReadAll(resp.Body) once more, into data.  With
\* resp nil (the loop body never ran) resp.Body panics: exit code 2.
RetryReRead ==
    /\ pc = "reread"
    /\ IF resp = 0
       THEN /\ pc' = "panicked"
            /\ exitCode' = 2
            /\ resps' = RunDefers(resps, defers)
            /\ UNCHANGED <<reported, data, respVal>>
       ELSE \E ok \in BOOLEAN :
            /\ resps' = [resps EXCEPT ![resp].reads = @ + 1]
            /\ respVal' = AfterReadAll(respVal, ok)
            /\ IF ReadAllOk(respVal, ok)
               THEN /\ data' = ReadAllData(respVal)
                    /\ pc' = "save"
                    /\ UNCHANGED <<exitCode, reported>>
               ELSE /\ Exit1("Error reading response body")
                    /\ UNCHANGED data
    /\ UNCHANGED <<rev, noRedirect, headersOpt, bodySrc, earlyCT, reqHeader,
                   reqBody, reqPos, retries, attempt, log, defers,
                   resp, finalResp, finalErr, respData, elapsed, sinceSend,
                   winTime, duration, saved, fileData, warned, rendered>>

(***************************************************************************)
(* Both programs: save, render, return.                                    *)
(***************************************************************************)

\* A save error that ends the run.
AfterSaveErrorFatal == "exited"

\* Where main() goes after os.WriteFile failed: the message is printed and
\* the output switch follows.
AfterSaveError == "render"

\* The save block: os.WriteFile(*outputFile, data, 0644) when a path is given.
Save ==
    /\ pc = "save"
    /\ \E outputFile \in {"", "out.bin"}, written \in BOOLEAN :
         IF outputFile = ""
         THEN /\ saved' = "off"
              /\ pc' = "render"
              /\ UNCHANGED <<fileData, warned>>
         ELSE IF written
         THEN /\ saved' = "ok"
              /\ fileData' = data
              /\ pc' = "render"
              /\ UNCHANGED warned
         ELSE /\ saved' = "failed"
              /\ warned' = TRUE
              /\ pc' = AfterSaveError
              /\ UNCHANGED fileData
    /\ UNCHANGED <<rev, exitCode, reported, noRedirect, headersOpt, bodySrc,
                   earlyCT, reqHeader, reqBody, reqPos, retries,
                   attempt, log, resps, defers, resp, respVal, finalResp, finalErr,
                   respData, data, elapsed, sinceSend, winTime, duration,
                   rendered>>

\* The colour outputPretty picks for the status line.
StatusColor(code) ==
    IF code >= 500 THEN "red"
    ELSE IF code >= 400 THEN "yellow"
    ELSE IF code >= 300 THEN "cyan"
    ELSE IF code >= 200 THEN "green"
    ELSE "white"

outputPretty(r, d, dur) ==
    [fmt |-> "pretty", shows |-> {"status", "headers", "body", "duration"},
     status |-> r.status, color |-> StatusColor(r.status),
     location |-> r.location, body |-> d, duration |-> dur]

\* json.MarshalIndent of a map of strings, an int and an http.Header cannot fail.
outputJSON(r, d, dur) ==
    [fmt |-> "json", shows |-> {"status", "headers", "body", "duration"},
     status |-> r.status, color |-> "",
     location |-> r.location, body |-> d, duration |-> dur]

outputHeaders(r) ==
    [fmt |-> "headers-only", shows |-> {"headers"},
     status |-> 0, color |-> "", location |-> r.location, body |-> <<>>,
     duration |-> -1]

outputBody(d) ==
    [fmt |-> "body-only", shows |-> {"body"},
     status |-> 0, color |-> "", location |-> "", body |-> d, duration |-> -1]

\* The output switch.
RenderAs(output, r, d, dur) ==
    CASE output = "json" -> outputJSON(r, d, dur)
      [] output = "headers-only" -> outputHeaders(r)
      [] output = "body-only" -> outputBody(d)
      [] OTHER -> outputPretty(r, d, dur)

\* The output switch, then main() returns: the deferred Close calls run and
\* the process ends with exit code 0.
Render ==
    /\ pc = "render"
    /\ \E output \in OutputOptions :
         rendered' = RenderAs(output, respVal, data, duration)
    /\ resps' = RunDefers(resps, defers)
    /\ defers' = <<>>
    /\ exitCode' = 0
    /\ pc' = "done"
    /\ UNCHANGED <<rev, reported, noRedirect, headersOpt, bodySrc, earlyCT,
                   reqHeader, reqBody, reqPos, retries, attempt, log, resp,
                   respVal, finalResp, finalErr, respData, data, elapsed,
                   sinceSend, winTime, duration, saved, fileData, warned>>

Next ==
    \/ CheckURL
    \/ ConfigureClient
    \/ ResolveBody
    \/ BuildRequest
    \/ MainSend
    \/ MainRead
    \/ LoopHead
    \/ RetryDo
    \/ RetryRead
    \/ AfterLoop
    \/ RetryReRead
    \/ Save
    \/ Render

Spec == Init /\ [][Next]_vars

(***************************************************************************)
(* Properties.                                                             *)
(***************************************************************************)

Terminal == pc \in {"done", "exited", "panicked"}

\* The run ended before the request was built.
EarlyExit ==
    /\ pc = "exited"
    /\ reported \in {"Error: URL is required.", "Error reading body file",
                     "Error creating request"}

\* Every attempt made so far failed: a client.Do error or a body read error.
AllFailed == \A i \in 1..Len(log) : log[i].res \in {"doErr", "readErr"}

\* The run ended in the Executor's terminal Failure.
ExecutorFailure ==
    /\ pc = "exited"
    /\ exitCode = 1
    /\ reported \in {"Error performing request", "Error reading response body",
                     "Error after attempts"}

\* C1: with retries >= 0 and every attempt failing, the number of attempts
\* never exceeds retries+1, and a run that got as far as the Executor ends
\* only in the terminal Failure, after exactly retries+1 attempts.
C1_ExactlyRetriesPlusOneOnFailure ==
    (retries >= 0 /\ AllFailed) =>
        /\ Len(log) <= retries + 1
        /\ (Terminal /\ ~EarlyExit) =>
               (ExecutorFailure /\ Len(log) = retries + 1)

C1_Witness ==
    /\ ExecutorFailure
    /\ retries >= 1
    /\ Len(log) = retries + 1
    /\ \E i \in 1..Len(log) : log[i].res = "readErr"
    /\ \E i \in 1..Len(log) : log[i].res = "doErr"

\* C2: no attempt is started after one that got a response and read its body
\* in full, and a run that ends in Success made at least one and at most
\* retries+1 attempts, the last of them the one that was read in full, with
\* no error reported and exit code 0.
C2_AttemptsUsedIsFirstSuccess ==
    /\ \A i \in 1..(Len(log) - 1) : log[i].res # "ok"
    /\ pc = "done" =>
          /\ Len(log) >= 1
          /\ Len(log) <= retries + 1
          /\ log[Len(log)].res = "ok"
          /\ reported = ""
          /\ exitCode = 0

C2_Witness ==
    /\ pc = "done"
    /\ Len(log) = 2
    /\ log[1].res = "readErr"
    /\ log[2].res = "ok"

\* C3 (as claimed): no response body is read by more than one ReadAll, and
\* once the winning attempt's body is read the bytes held for saving and
\* rendering are the bytes the server sent.
C3_BodyReadOnce ==
    /\ \A i \in 1..Len(resps) : resps[i].reads <= 1
    /\ pc \in {"save", "render", "done"} =>
          /\ resps[resp].reads = 1
          /\ data = respVal.body

\* C4: a run whose attempts all failed ends with the error reported and exit
\* code 1, nothing saved and nothing rendered; and exit code 0 is reached
\* only with a response obtained, read and rendered.
C4_FailureSkipsSaveAndRender ==
    /\ (Terminal /\ ~EarlyExit /\ retries >= 0 /\ AllFailed) =>
          ExecutorFailure
    /\ pc = "exited" =>
          /\ exitCode = 1
          /\ reported # ""
          /\ saved = "none"
          /\ fileData = <<>>
          /\ ~warned
          /\ rendered = NoRender
    /\ exitCode = 0 =>
          /\ pc = "done"
          /\ resp # 0
          /\ log[Len(log)].res = "ok"
          /\ rendered # NoRender

C4_Witness ==
    /\ ExecutorFailure
    /\ reported = "Error after attempts"
    /\ retries = 1
    /\ log[2].res = "readErr"

\* The request was sent at least once.
Sent == log # <<>>

\* The Content-Type value the headers option supplies, "" if it supplies none.
OptionContentType == HeaderGet(SetHeaders(EmptyHeader, headersOpt), "Content-Type")

\* C5 (as claimed): a request built from json (form) fields carries the
\* Content-Type of the headers option when that supplies one, and otherwise
\* application/json (application/x-www-form-urlencoded), whether or not the
\* headers option is empty.
C5_ContentTypePrecedence ==
    (Sent /\ bodySrc \in {"json", "form"}) =>
        HeaderGet(reqHeader, "Content-Type") =
            IF OptionContentType # "" THEN OptionContentType
            ELSE IF bodySrc = "json" THEN "application/json"
            ELSE "application/x-www-form-urlencoded"

\* C6: a failed write of the save file prints the warning and does not end
\* the run: the output switch follows, renders the response, body and
\* duration held at that point, and the run ends with exit code 0.
C6_SaveFailureNonFatal ==
    saved = "failed" =>
        /\ warned
        /\ fileData = <<>>
        /\ pc \in {"render", "done"}
        /\ rendered = NoRender => pc = "render"
        /\ pc = "done" =>
              /\ exitCode = 0
              /\ rendered # NoRender
              /\ rendered = RenderAs(rendered.fmt, respVal, data, duration)

C6_Witness ==
    /\ pc = "done"
    /\ saved = "failed"
    /\ rendered.fmt = "body-only"
    /\ rendered.body = <<"x", "y">>

\* What a rendering shows of the response's status line and headers.
RenderedIs(status, location) ==
    /\ "status" \in rendered.shows => rendered.status = status
    /\ "headers" \in rendered.shows => rendered.location = location

\* C7 (as claimed): with no-redirect the first response of the chain is the
\* one rendered, a 302 with its Location when the server redirects, and only
\* one request was issued; without it client.Do never gives up on a redirect
\* chain and the response rendered is the chain's final one.
C7_RedirectPolicyAsClaimed ==
    /\ \A i \in 1..Len(log) : log[i].cause # "redirects"
    /\ pc = "done" =>
          IF noRedirect
          THEN /\ respVal.hop = 0
               /\ respVal.issued = 1
               /\ respVal.chain >= 1 => RenderedIs(302, "/next")
          ELSE /\ respVal.hop = respVal.chain
               /\ RenderedIs(respVal.status, "")
               /\ respVal.status \in FinalStatuses

\* C7 (amended): as claimed with no-redirect; without it a chain of fewer
\* than DefaultMaxRedirects redirects is followed to its final response,
\* which is the one rendered, and client.Do fails on a chain of
\* DefaultMaxRedirects redirects or more.
C7_RedirectPolicy ==
    /\ \A i \in 1..Len(log) :
          log[i].cause = "redirects" =>
              (~noRedirect /\ log[i].chain >= DefaultMaxRedirects)
    /\ pc = "done" =>
          IF noRedirect
          THEN /\ respVal.hop = 0
               /\ respVal.issued = 1
               /\ respVal.chain >= 1 => RenderedIs(302, "/next")
          ELSE /\ respVal.hop = respVal.chain
               /\ respVal.chain < DefaultMaxRedirects
               /\ respVal.issued = respVal.chain + 1
               /\ RenderedIs(respVal.status, "")
               /\ respVal.status \in FinalStatuses

C7_Witness ==
    /\ pc = "done"
    /\ noRedirect
    /\ respVal.chain >= 1
    /\ rendered.fmt = "pretty"
    /\ rendered.status = 302
    /\ rendered.location = "/next"

\* C8 (as claimed): on success the duration reported is the time from the
\* start of the winning attempt's send to the end of its body read.
C8_DurationIsWinningAttempt ==
    pc = "done" =>
        /\ duration = winTime
        /\ "duration" \in rendered.shows => rendered.duration = winTime

\* C9 (as claimed): no response is closed twice, every response obtained is
\* closed when the next attempt starts, and every response obtained is closed
\* once when the process ends.
C9_EveryResponseClosedOnce ==
    /\ \A i \in 1..Len(resps) : resps[i].closes <= 1
    /\ pc = "do" => \A i \in 1..Len(resps) : resps[i].closes = 1
    /\ Terminal => \A i \in 1..Len(resps) : resps[i].closes = 1

\* C10 (as claimed): every attempt has the full request body to send.
C10_SameRequestEveryAttempt ==
    \A i \in 1..Len(log) : log[i].avail = reqBody

====
